---- MODULE Spec2Model ----
(***************************************************************************)
(* City School backend: the authentication routes (register, login,        *)
(* logout, updatedetails, updatepassword), the protect and authorize       *)
(* middleware, the User model with its pre-save hashing hook, and the      *)
(* admin seeding script, as a state machine over the Credential Store.     *)
(*                                                                         *)
(* A request in flight occupies a slot and advances one step per store     *)
(* operation (each `await` on the store is a point where other requests    *)
(* may run); computation between two store operations is local to the      *)
(* request and is folded into the step of the store operation next to it.  *)
(* A step binds the part of the request the code reads in it.  The         *)
(* variable `last` records the request that took the latest step, with     *)
(* everything it carried and the response it got.                          *)
(***************************************************************************)
EXTENDS Integers, Sequences, FiniteSets, TLC

\* ------------------------------------------------------------------ bounds
MaxRequests == 3        \* HTTP requests started in one behaviour
MaxTime     == 1        \* clock ticks in one behaviour
MaxSeedRuns == 1        \* runs of the seeding script
NumSlots    == 2        \* requests in flight at the same time
MaxRoleList == 2        \* roles in the list an authorize is built with
JwtExpire    == 1       \* JWT_EXPIRE, in clock ticks
CookieExpire == 2       \* COOKIE_EXPIRE, in clock ticks
LogoutCookieTtl == 1    \* the 10 seconds of the logout cookie, in clock ticks

Slots == 1..NumSlots

\* ------------------------------------------------------------------ values
Undef == "undefined"
Null == "null"          \* a JSON null in a request body

AdminEmail == "admin@cityschool.com"
UserEmail  == "a@b.com"
BadEmail   == "not-an-email"

Roles == {"super-admin", "admin", "school_admin", "teacher", "student", "parent"}

\* A password string is a sequence of pieces: a plaintext typed by a person
\* is one piece, a bcrypt string is "$2a", its salt, then the hashed string.
\* The empty sequence stands for a missing (undefined or empty) value.
NoPw     == << >>
Secret1  == <<"secret1">>
Secret2  == <<"secret2">>
ShortPw  == <<"abc">>
SeedPw   == <<"adminpassword123">>
ReadmePw == <<"Admin@123456">>

Salts == {"s1"}

IsDigest(p) == Len(p) >= 3 /\ p[1] = "$2a"

PieceLen(s) ==
    CASE s = "secret1" -> 7
      [] s = "secret2" -> 7
      [] s = "abc" -> 3
      [] s = "adminpassword123" -> 16
      [] s = "Admin@123456" -> 12
      [] OTHER -> 8

\* String length of a password value (a bcrypt string has 60 characters).
PwLen(p) == IF p = NoPw THEN 0 ELSE IF IsDigest(p) THEN 60 ELSE PieceLen(p[1])

\* bcrypt.hash(plain, salt)
Hash(p, salt) == <<"$2a", salt>> \o p

\* bcrypt.compare(entered, stored): re-hash with the salt kept in the digest.
Compare(entered, stored) == IsDigest(stored) /\ Hash(entered, stored[2]) = stored


\* ------------------------------------------------------------------ tokens
\* A token string: a JWT (payload, expiry, and whether its signature was made
\* with JWT_SECRET), a string that is no JWT at all, the empty string, or no
\* value.
NoTok == [kind |-> "undefined", sig |-> "", id |-> 0, name |-> "", role |-> "",
          tenantId |-> "", exp |-> 0]
EmptyTok == [NoTok EXCEPT !.kind = "empty"]
NoneTok  == [NoTok EXCEPT !.kind = "malformed", !.name = "none"]

\* A user removed from the store before the server started; a client may
\* still hold the token that was signed for it.
StaleId == 9
StaleTok == [kind |-> "jwt", sig |-> "good", id |-> StaleId, name |-> "Gone",
             role |-> "student", tenantId |-> "S1", exp |-> JwtExpire]

\* !token in JavaScript
FalsyTok(t) == t.kind \in {"undefined", "empty"}

\* user.getSignedJwtToken()
getSignedJwtTokenNoTenant(user, t) ==
    [kind |-> "jwt", sig |-> "good", id |-> user.id, name |-> user.name,
     role |-> user.role, tenantId |-> "", exp |-> t + JwtExpire]
getSignedJwtToken(user, t) ==
    [kind |-> "jwt", sig |-> "good", id |-> user.id, name |-> user.name,
     role |-> user.role, tenantId |-> user.tenantId, exp |-> t + JwtExpire]

\* jwt.verify(token, JWT_SECRET) returns the payload; otherwise it throws.
JwtVerifies(tok, t) == tok.kind = "jwt" /\ tok.sig = "good" /\ t < tok.exp

\* ------------------------------------------------------------------ schema
\* /^\w+([\.-]?\w+)*@\w+([\.-]?\w+)*(\.\w{2,3})+$/ on the addresses used here:
\* "a@b.com" and "admin@cityschool.com" match, "not-an-email" has no @.
EmailMatch(e) == e \in {UserEmail, AdminEmail}

\* The document a handler builds from the schema: defaults applied.
NewDoc(b, t) ==
    [id |-> 0, name |-> b.name, email |-> b.email,
     role |-> IF b.role = Undef THEN "student" ELSE b.role,
     password |-> b.password, tenantId |-> b.tenantId, createdAt |-> t]

\* The enum validator of a path that is not required: it lets null (and
\* undefined) through; the default is applied to undefined only.
EnumValid(role) == role = Null \/ role \in Roles

\* Schema validators of the paths in `paths`.
ValidPaths(doc, paths) ==
    /\ "name" \in paths => doc.name # Undef
    /\ "email" \in paths => (doc.email # Undef /\ EmailMatch(doc.email))
    /\ "role" \in paths => EnumValid(doc.role)
    /\ "password" \in paths => (doc.password # NoPw /\ PwLen(doc.password) >= 6)
    /\ "tenantId" \in paths => doc.tenantId # Undef

AllPaths == {"name", "email", "role", "password", "tenantId"}

\* UserSchema.pre('save'): hash only when the password path is modified.
PreSaveAlways(doc, passwordModified, salt) ==
    [doc EXCEPT !.password = Hash(@, salt)]
PreSave(doc, passwordModified, salt) ==
    IF ~passwordModified THEN doc
    ELSE [doc EXCEPT !.password = Hash(@, salt)]

\* password has select: false: default reads do not carry it.
SelectDefault(doc) == [doc EXCEPT !.password = NoPw]

\* ------------------------------------------------------------------ errors
ErrorResponse(message, statusCode) ==
    [name |-> "ErrorResponse", message |-> message, statusCode |-> statusCode]
ValidationError == [name |-> "ValidationError", message |-> "Validation failed",
                    statusCode |-> 0]
DuplicateKeyError == [name |-> "MongoServerError",
                      message |-> "E11000 duplicate key", statusCode |-> 0]
TypeError == [name |-> "TypeError", message |-> "Cannot read properties of null",
              statusCode |-> 0]
IllegalArguments == [name |-> "Error", message |-> "Illegal arguments",
                     statusCode |-> 0]

NoErr == [name |-> "", message |-> "", statusCode |-> 0]

NoCookie == [set |-> FALSE, value |-> NoTok, expires |-> 0, httpOnly |-> FALSE,
             secure |-> FALSE, path |-> "", sameSite |-> ""]
NoResp == [status |-> 0, success |-> FALSE, error |-> "", token |-> NoTok,
           cookie |-> NoCookie, data |-> {}]

\* The error middleware mounted after the routers: the JSON error envelope.
errorHandler(err) ==
    [NoResp EXCEPT
       !.status = CASE err.name = "ErrorResponse" -> err.statusCode
                    [] err.name \in {"ValidationError", "MongoServerError"} -> 400
                    [] OTHER -> 500,
       !.error = err.message]


\* ------------------------------------------------------------------ requests
\* The Authorization header: its first word and the second piece of
\* split(' ') (NoTok when there is no second piece, EmptyTok when it is '').
NoAuth == [scheme |-> "", cred |-> NoTok]
Bearer(t) == [scheme |-> "Bearer", cred |-> t]
Basic(t) == [scheme |-> "Basic", cred |-> t]

NoBody == [name |-> Undef, email |-> Undef, password |-> NoPw, role |-> Undef,
           tenantId |-> Undef, currentPassword |-> NoPw, newPassword |-> NoPw]

NoDoc == {}

\* A request.  body, auth and cookie are what the client sent, as far as the
\* code has read them; ident/user is req.user; doc is the document the
\* handler holds; token is what protect extracted; reads counts the store
\* operations of the step; ran says that the route's handler was entered;
\* seen is the password version the handler read; cause names the branch
\* that answered, err is what it passed to next(), resp what was sent; roles
\* is the list an authorize middleware on the route was built with.
IdleReq == [route |-> "", pc |-> "idle", body |-> NoBody, auth |-> NoAuth,
            cookie |-> NoTok, ident |-> "unset", user |-> NoDoc, doc |-> NoDoc,
            token |-> NoTok, modified |-> FALSE, reads |-> 0, ran |-> FALSE,
            seen |-> 0, cause |-> "", err |-> NoErr, resp |-> NoResp,
            roles |-> {}]

VARIABLES
    users,      \* the Credential Store: user id -> stored document
    reqs,       \* requests in flight, by slot
    last,       \* the request that took the latest step
    nreq,       \* requests started so far
    issued,     \* token strings clients hold (every token ever sent out)
    now,        \* the clock
    env,        \* NODE_ENV
    seed,       \* the seeding script: where it is, what findOne returned
    nseed,      \* runs of the seeding script so far
    pwlog       \* user id -> what the last password operation was

vars == <<users, reqs, last, nreq, issued, now, env, seed, nseed, pwlog>>

Ids == DOMAIN users

\* User.findOne({ email })
FindByEmail(store, email) == {store[i] : i \in {j \in DOMAIN store : store[j].email = email}}

\* User.findById(id)
FindById(store, id) == IF id \in DOMAIN store THEN {store[id]} ELSE NoDoc

\* The unique index on email: a write is refused when another document
\* holds the address.
EmailTakenNever(store, email, self) == FALSE
EmailTaken(store, email, self) ==
    \E i \in DOMAIN store : i # self /\ store[i].email = email

TheDoc(S) == CHOOSE d \in S : TRUE

Init ==
    /\ users = << >>
    /\ reqs = [r \in Slots |-> IdleReq]
    /\ last = IdleReq
    /\ nreq = 0
    /\ issued = {StaleTok}
    /\ now = 0
    /\ env \in {"production", "development"}
    /\ seed = [pc |-> "idle", found |-> NoDoc]
    /\ nseed = 0
    /\ pwlog = << >>

\* ------------------------------------------------------------------ helpers
\* A new request takes the lowest slot that is not in flight.
Free(r) ==
    /\ nreq < MaxRequests
    /\ reqs[r].pc = "idle"
    /\ \A q \in Slots : q < r => reqs[q].pc # "idle"

\* What a request in flight carries from one step to the next.
InFlight(req) ==
    [IdleReq EXCEPT !.route = req.route, !.pc = req.pc, !.body = req.body,
                    !.token = req.token, !.ident = req.ident,
                    !.user = req.user, !.doc = req.doc, !.seen = req.seen,
                    !.ran = req.ran]

\* Request r has taken a step and is now req.
Step(r, req) ==
    /\ reqs' = [reqs EXCEPT ![r] = IF req.pc = "done" THEN IdleReq
                                   ELSE InFlight(req)]
    /\ last' = req

\* The handler sent its response.
Answer(req, resp, cause) ==
    [req EXCEPT !.pc = "done", !.resp = resp, !.cause = cause, !.doc = NoDoc]

\* next(err): the error middleware answers.
Throw(req, err, cause) ==
    [Answer(req, errorHandler(err), cause) EXCEPT !.err = err]

\* sendTokenResponse(user, statusCode, res)
sendTokenResponse(user, statusCode, t, nodeEnv) ==
    LET token == getSignedJwtToken(user, t)
    IN [status |-> statusCode, success |-> TRUE, error |-> "", token |-> token,
        cookie |-> [set |-> TRUE, value |-> token, expires |-> t + CookieExpire,
                    httpOnly |-> TRUE, secure |-> (nodeEnv = "production"),
                    path |-> "/", sameSite |-> "lax"],
        data |-> {}]

PwEntry(plain, ver, old, new) ==
    [plain |-> plain, ver |-> ver, upOld |-> old, upNew |-> new]


\* ------------------------------------------------------------------ inputs
RegisterBodies ==
    {[NoBody EXCEPT !.name = "A", !.email = UserEmail, !.password = Secret1,
                    !.tenantId = "S1"],
     [NoBody EXCEPT !.name = "A", !.email = AdminEmail, !.password = Secret1,
                    !.tenantId = "S1"],
     [NoBody EXCEPT !.name = "A", !.email = UserEmail, !.password = Secret1,
                    !.role = "teacher", !.tenantId = "S1"],
     [NoBody EXCEPT !.name = "A", !.email = UserEmail, !.password = ShortPw,
                    !.tenantId = "S1"],
     [NoBody EXCEPT !.name = "A", !.email = UserEmail, !.password = Secret1,
                    !.role = "staff", !.tenantId = "S1"],
     [NoBody EXCEPT !.name = "A", !.email = UserEmail, !.password = Secret1,
                    !.role = Null, !.tenantId = "S1"],
     [NoBody EXCEPT !.name = "A", !.email = UserEmail, !.password = Secret1]}

LoginBodies ==
    {[NoBody EXCEPT !.email = UserEmail, !.password = Secret1],
     [NoBody EXCEPT !.email = UserEmail, !.password = Secret2],
     [NoBody EXCEPT !.email = AdminEmail, !.password = Secret1],
     [NoBody EXCEPT !.email = AdminEmail, !.password = SeedPw],
     [NoBody EXCEPT !.email = AdminEmail, !.password = ReadmePw],
     [NoBody EXCEPT !.password = Secret1],
     [NoBody EXCEPT !.email = UserEmail]}

\* ------------------------------------------------------------------ register
\* User.create(fields): validate every path, run the pre-save hook on the new
\* document (every path of a new document is modified), insert.
CreateError(store, doc) ==
    IF ~ValidPaths(doc, AllPaths) THEN {ValidationError}
    ELSE IF EmailTaken(store, doc.email, 0) THEN {DuplicateKeyError}
    ELSE {}

Created(store, doc, salt) == [PreSave(doc, TRUE, salt) EXCEPT !.id = Len(store) + 1]

Register(r) ==
    /\ Free(r)
    /\ \E b \in RegisterBodies :
         LET req == [IdleReq EXCEPT !.route = "register", !.body = b, !.ran = TRUE]
             doc == NewDoc(b, now)
             errs == CreateError(users, doc)
         IN IF errs # {}
            THEN /\ Step(r,
                               Throw([req EXCEPT !.reads =
                                         IF ValidationError \in errs THEN 0 ELSE 1],
                                      TheDoc(errs), "create"))
                 /\ UNCHANGED <<users, issued, pwlog>>
            ELSE \E salt \in Salts :
                   LET user == Created(users, doc, salt)
                       resp == sendTokenResponse(user, 200, now, env)
                   IN /\ users' = Append(users, user)
                      /\ pwlog' = Append(pwlog, PwEntry(doc.password, 1, NoPw, NoPw))
                      /\ issued' = issued \cup {resp.token}
                      /\ Step(r,
                                    Answer([req EXCEPT !.reads = 1], resp, "ok"))
    /\ nreq' = nreq + 1
    /\ UNCHANGED <<now, env, seed, nseed>>

\* ------------------------------------------------------------------ login
\* the error login passes on when findOne returns no user
NoUserErrorLeaky == ErrorResponse("User not found", 404)
NoUserError == ErrorResponse("Invalid credentials", 401)

\* the error login passes on when matchPassword returns false
BadPasswordError == ErrorResponse("Invalid credentials", 401)

\* login: findOne with the password selected is its only store operation.
Login(r) ==
    /\ Free(r)
    /\ \E b \in LoginBodies :
         LET req == [IdleReq EXCEPT !.route = "login", !.body = b, !.ran = TRUE]
             found == FindByEmail(users, b.email)
         IN IF b.email = Undef \/ b.password = NoPw
            THEN /\ Step(r,
                       Throw(req, ErrorResponse(
                                "Please provide an email and password", 400),
                              "missing"))
                 /\ UNCHANGED issued
            ELSE IF found = NoDoc
            THEN /\ Step(r,
                       Throw([req EXCEPT !.reads = 1],
                              NoUserError, "nouser"))
                 /\ UNCHANGED issued
            ELSE LET user == TheDoc(found)
                     req1 == [req EXCEPT !.reads = 1, !.user = {SelectDefault(user)},
                                         !.seen = pwlog[user.id].ver]
                 IN IF ~Compare(b.password, user.password)
                    THEN /\ Step(r,
                               Throw(req1, BadPasswordError, "badpw"))
                         /\ UNCHANGED issued
                    ELSE LET resp == sendTokenResponse(user, 200, now, env)
                         IN /\ Step(r, Answer(req1, resp, "ok"))
                            /\ issued' = issued \cup {resp.token}
    /\ nreq' = nreq + 1
    /\ UNCHANGED <<users, now, env, seed, nseed, pwlog>>

\* ------------------------------------------------------------------ logout
Logout(r) ==
    /\ Free(r)
    /\ Step(r,
         Answer([IdleReq EXCEPT !.route = "logout", !.ran = TRUE],
                [NoResp EXCEPT
                   !.status = 200, !.success = TRUE,
                   !.cookie = [set |-> TRUE, value |-> NoneTok,
                               expires |-> now + LogoutCookieTtl, httpOnly |-> TRUE,
                               secure |-> FALSE, path |-> "/", sameSite |-> ""]],
                "ok"))
    /\ nreq' = nreq + 1
    /\ UNCHANGED <<users, issued, now, env, seed, nseed, pwlog>>


\* ------------------------------------------------------------------ protect
\* A token string signed with some other secret, naming user 1.
ForgedTok == [kind |-> "jwt", sig |-> "bad", id |-> 1, name |-> "A",
              role |-> "super-admin", tenantId |-> "S1",
              exp |-> MaxTime + JwtExpire + 1]

\* What a client may send as Authorization header and token cookie: nothing,
\* the cookie logout leaves behind, a token it was given, in the header or
\* in the cookie, alone or next to another one.
Credentials ==
    {<<NoAuth, NoTok>>, <<NoAuth, NoneTok>>, <<Bearer(NoTok), NoTok>>}
    \cup {<<Bearer(g), NoTok>> : g \in issued}
    \cup {<<NoAuth, g>> : g \in issued}
    \cup {<<Bearer(ForgedTok), g>> : g \in issued}
    \cup {<<Bearer(EmptyTok), g>> : g \in issued}
    \cup {<<Basic(NoneTok), g>> : g \in issued}
    \cup {<<Bearer(g), h>> : g \in issued, h \in issued}

\* router.put(path, protect, handler)
Protected(route) == route \in {"updatedetails", "updatepassword"}

\* Lines 8-20 of protect: the Bearer header first, else the token cookie.
ExtractTokenCookieFirst(auth, cookie) ==
    IF ~FalsyTok(cookie) THEN cookie
    ELSE IF auth.scheme = "Bearer" THEN auth.cred ELSE NoTok
ExtractToken(auth, cookie) ==
    IF auth.scheme = "Bearer" THEN auth.cred
    ELSE IF ~FalsyTok(cookie) THEN cookie
    ELSE NoTok

\* the error of line 24 (no token) and the error of line 35 (the catch)
NoTokenError == ErrorResponse("Not authorized to access this route", 401)
InvalidTokenErrorLeaky == ErrorResponse("Token is invalid or expired", 403)
InvalidTokenError == ErrorResponse("Not authorized to access this route", 401)

\* protect on a request: the request after it, answered or handed on to the
\* route's handler with req.user attached.
protectLookupFirst(req, store, t) ==
    LET token == ExtractToken(req.auth, req.cookie)
        found == FindById(store, token.id)
        req1 == [req EXCEPT !.token = token, !.reads = @ + 1]
    IN IF FalsyTok(token)
       THEN Throw(req1, NoTokenError, "notoken")
       ELSE IF ~JwtVerifies(token, t)
       THEN Throw(req1, InvalidTokenError, "badtoken")
       ELSE [req1 EXCEPT !.pc = req.route,
                         !.ident = IF found = NoDoc THEN "null" ELSE "doc",
                         !.user = {SelectDefault(d) : d \in found}]
protectRevoking(req, store, t) ==
    LET token == ExtractToken(req.auth, req.cookie)
        found == FindById(store, token.id)
    IN IF FalsyTok(token)
       THEN Throw([req EXCEPT !.token = token],
                   NoTokenError, "notoken")
       ELSE IF ~JwtVerifies(token, t)
               \/ (token.id \in DOMAIN pwlog /\ pwlog[token.id].ver > 1)
       THEN Throw([req EXCEPT !.token = token],
                   InvalidTokenError, "badtoken")
       ELSE [req EXCEPT !.pc = req.route, !.token = token, !.reads = @ + 1,
                        !.ident = IF found = NoDoc THEN "null" ELSE "doc",
                        !.user = {SelectDefault(d) : d \in found}]
protect(req, store, t) ==
    LET token == ExtractToken(req.auth, req.cookie)
        found == FindById(store, token.id)
    IN IF FalsyTok(token)
       THEN Throw([req EXCEPT !.token = token],
                   NoTokenError, "notoken")
       ELSE IF ~JwtVerifies(token, t)
       THEN Throw([req EXCEPT !.token = token],
                   InvalidTokenError, "badtoken")
       ELSE [req EXCEPT !.pc = req.route, !.token = token, !.reads = @ + 1,
                        !.ident = IF found = NoDoc THEN "null" ELSE "doc",
                        !.user = {SelectDefault(d) : d \in found}]

\* A request to PUT /updatedetails or PUT /updatepassword arrives and runs
\* the middleware the router puts before the handler.
Protect(r) ==
    /\ Free(r)
    /\ \E route \in {"updatedetails", "updatepassword"}, c \in Credentials :
         LET req == [IdleReq EXCEPT !.route = route, !.auth = c[1],
                                    !.cookie = c[2]]
         IN Step(r,
                       IF Protected(route) THEN protect(req, users, now)
                       ELSE [req EXCEPT !.pc = route])
    /\ nreq' = nreq + 1
    /\ UNCHANGED <<users, issued, now, env, seed, nseed, pwlog>>

\* ------------------------------------------------------------------ handlers
\* req.user.id in a handler whose req.user is null: the TypeError goes to
\* next() through asyncHandler.
NullUserSilent(req) ==
    Answer(req, [NoResp EXCEPT !.status = 200, !.success = TRUE], "ok")
NullUser(req) == Throw(req, TypeError, "nullident")

\* ------------------------------------------------------------------ updateDetails
\* Payloads: name and email present or not, with or without values for the
\* fields the route does not offer.
DetailsBodies ==
    {[NoBody EXCEPT !.name = "B"],
     [NoBody EXCEPT !.email = UserEmail],
     [NoBody EXCEPT !.name = "B", !.email = AdminEmail],
     [NoBody EXCEPT !.email = BadEmail],
     [NoBody EXCEPT !.name = "B", !.role = "super-admin", !.password = Secret2,
                    !.tenantId = "T2"]}

\* An update document: a path set to Undef / NoPw is not part of it.
FieldsToUpdateAll(b) ==
    [name |-> b.name, email |-> b.email, role |-> b.role,
     password |-> b.password, tenantId |-> b.tenantId]
FieldsToUpdate(b) ==
    [name |-> b.name, email |-> b.email, role |-> Undef,
     password |-> NoPw, tenantId |-> Undef]

UpdatePaths(f) ==
    {p \in {"name", "email", "role", "tenantId"} : f[p] # Undef}
    \cup (IF f.password # NoPw THEN {"password"} ELSE {})

ApplyUpdate(doc, f) ==
    [doc EXCEPT !.name = IF f.name # Undef THEN f.name ELSE @,
                !.email = IF f.email # Undef THEN f.email ELSE @,
                !.role = IF f.role # Undef THEN f.role ELSE @,
                !.password = IF f.password # NoPw THEN f.password ELSE @,
                !.tenantId = IF f.tenantId # Undef THEN f.tenantId ELSE @]

\* User.findByIdAndUpdate(id, fields, { new: true, runValidators: true }):
\* the error, if any.
UpdateErrorNoIndex(store, id, f) ==
    IF ~ValidPaths(ApplyUpdate(store[id], f), UpdatePaths(f)) THEN {ValidationError}
    ELSE {}
UpdateError(store, id, f) ==
    IF ~ValidPaths(ApplyUpdate(store[id], f), UpdatePaths(f)) THEN {ValidationError}
    ELSE IF "email" \in UpdatePaths(f) /\ EmailTaken(store, f.email, id)
    THEN {DuplicateKeyError}
    ELSE {}

\* What a query hands back to the handler.
Returned(doc) == SelectDefault(doc)

UpdateDetails(r) ==
    /\ reqs[r].pc = "updatedetails"
    /\ \E b \in DetailsBodies :
         LET req == [reqs[r] EXCEPT !.body = b, !.ran = TRUE]
         IN IF req.ident # "doc"
            THEN /\ Step(r, NullUser(req))
                 /\ UNCHANGED users
            ELSE LET id == TheDoc(req.user).id
                     f == FieldsToUpdate(b)
                     errs == UpdateError(users, id, f)
                     req1 == [req EXCEPT !.reads = @ + 1]
                 IN IF errs # {}
                    THEN /\ Step(r,
                               Throw(req1, TheDoc(errs), "update"))
                         /\ UNCHANGED users
                    ELSE LET upd == ApplyUpdate(users[id], f)
                         IN /\ users' = [users EXCEPT ![id] = upd]
                            /\ Step(r,
                                 Answer(req1,
                                        [NoResp EXCEPT !.status = 200,
                                                       !.success = TRUE,
                                                       !.data = {Returned(upd)}],
                                        "ok"))
    /\ UNCHANGED <<nreq, issued, now, env, seed, nseed, pwlog>>


\* ------------------------------------------------------------------ updatePassword
\* Payloads: typed passwords, a missing current password, and as new
\* password the very string the store holds for some user.
PasswordBodies ==
    {[NoBody EXCEPT !.currentPassword = Secret1, !.newPassword = Secret2],
     [NoBody EXCEPT !.currentPassword = Secret2, !.newPassword = Secret1],
     [NoBody EXCEPT !.currentPassword = Secret1, !.newPassword = Secret1],
     [NoBody EXCEPT !.currentPassword = Secret1, !.newPassword = ShortPw],
     [NoBody EXCEPT !.newPassword = Secret2]}
    \cup {[NoBody EXCEPT !.currentPassword = Secret1,
                         !.newPassword = users[i].password] : i \in Ids}

\* User.findById(req.user.id).select('+password')
UpdatePasswordFind(r) ==
    /\ reqs[r].pc = "updatepassword"
    /\ \E b \in PasswordBodies :
         LET req == [reqs[r] EXCEPT !.body = b, !.ran = TRUE]
         IN IF req.ident # "doc"
            THEN Step(r, NullUser(req))
            ELSE LET id == TheDoc(req.user).id
                 IN Step(r,
                      [req EXCEPT !.pc = "up_save", !.reads = @ + 1,
                                  !.doc = FindById(users, id),
                                  !.seen = pwlog[id].ver])
    /\ UNCHANGED <<users, nreq, issued, now, env, seed, nseed, pwlog>>

\* document.set(path, value) marks the path modified when the value differs
\* from the one the document holds.
MarksModified(prior, val) == val # prior

\* the error updatePassword passes on when matchPassword returns false
BadCurrentErrorCollapsed == ErrorResponse("Invalid credentials", 401)
BadCurrentError == ErrorResponse("Current password is incorrect", 401)

\* The rest of updatePassword on the document it read: matchPassword, then
\* user.password = newPassword and user.save() (validate the modified paths,
\* run the pre-save hook, write the modified paths), then sendTokenResponse.
UpdatePasswordSave(r) ==
    /\ reqs[r].pc = "up_save"
    /\ LET req == reqs[r]
           b == req.body
       IN IF req.doc = NoDoc
          THEN /\ Step(r,
                             Throw(req, TypeError, "nulldoc"))
               /\ UNCHANGED <<users, issued, pwlog>>
          ELSE IF b.currentPassword = NoPw
          THEN /\ Step(r,
                             Throw(req, IllegalArguments, "nocurrent"))
               /\ UNCHANGED <<users, issued, pwlog>>
          ELSE IF ~Compare(b.currentPassword, TheDoc(req.doc).password)
          THEN /\ Step(r,
                             Throw(req, BadCurrentError, "badcurrent"))
               /\ UNCHANGED <<users, issued, pwlog>>
          ELSE LET m == MarksModified(TheDoc(req.doc).password, b.newPassword)
                   user == [TheDoc(req.doc) EXCEPT !.password = b.newPassword]
               IN IF m /\ ~ValidPaths(user, {"password"})
                  THEN /\ Step(r,
                                     Throw(req, ValidationError, "save"))
                       /\ UNCHANGED <<users, issued, pwlog>>
                  ELSE \E salt \in (IF m THEN Salts ELSE {"s1"}) :
                         LET saved == PreSave(user, m, salt)
                             wrote == m \/ saved.password # TheDoc(req.doc).password
                             resp == sendTokenResponse(saved, 200, now, env)
                         IN /\ users' = IF wrote
                                         THEN [users EXCEPT ![user.id].password =
                                                              saved.password]
                                         ELSE users
                            /\ pwlog' = [pwlog EXCEPT ![user.id] =
                                  PwEntry(IF m THEN b.newPassword ELSE @.plain,
                                          @.ver + 1, b.currentPassword,
                                          b.newPassword)]
                            /\ issued' = issued \cup {resp.token}
                            /\ Step(r,
                                 Answer([req EXCEPT !.modified = m,
                                                    !.reads = IF wrote THEN @ + 1
                                                              ELSE @],
                                        resp, "ok"))
    /\ UNCHANGED <<nreq, now, env, seed, nseed>>

\* ------------------------------------------------------------------ seeding
SeedBody == [NoBody EXCEPT !.name = "Super Admin", !.email = AdminEmail,
                           !.password = SeedPw, !.role = "super-admin",
                           !.tenantId = "HQ-GLOBAL"]

\* User.findOne({ email: 'admin@cityschool.com' })
SeedFind ==
    /\ seed.pc = "idle"
    /\ nseed < MaxSeedRuns
    /\ LET found == {SelectDefault(d) : d \in FindByEmail(users, AdminEmail)}
       IN seed' = [pc |-> IF found = NoDoc THEN "create" ELSE "update",
                   found |-> found]
    /\ nseed' = nseed + 1
    /\ UNCHANGED <<users, reqs, last, nreq, issued, now, env, pwlog>>

\* adminExists.role = ...; adminExists.name = ...; adminExists.save():
\* the password path is neither selected nor modified; save writes the paths
\* that were set and whatever the pre-save hook changed.
SeedUpdate ==
    /\ seed.pc = "update"
    /\ \E salt \in {"s1"} :
         LET doc == [TheDoc(seed.found) EXCEPT !.role = "super-admin",
                                              !.name = "Super Admin"]
             saved == PreSave(doc, FALSE, salt)
         IN users' = [users EXCEPT
                        ![doc.id].role = saved.role,
                        ![doc.id].name = saved.name,
                        ![doc.id].password = IF saved.password # doc.password
                                             THEN saved.password ELSE @]
    /\ seed' = [pc |-> "idle", found |-> NoDoc]
    /\ UNCHANGED <<reqs, last, nreq, issued, now, env, nseed, pwlog>>

\* User.create({...}) of the seeding script; an error ends the script.
SeedCreate ==
    /\ seed.pc = "create"
    /\ LET doc == NewDoc(SeedBody, now)
       IN IF CreateError(users, doc) # {}
          THEN UNCHANGED <<users, pwlog>>
          ELSE \E salt \in Salts :
                 /\ users' = Append(users, Created(users, doc, salt))
                 /\ pwlog' = Append(pwlog, PwEntry(doc.password, 1, NoPw, NoPw))
    /\ seed' = [pc |-> "idle", found |-> NoDoc]
    /\ UNCHANGED <<reqs, last, nreq, issued, now, env, nseed>>

\* ------------------------------------------------------------------ authorize
\* `User role ${req.user.role} is not authorized to access this route`
RoleMessage(role) ==
    "User role " \o role \o " is not authorized to access this route"

\* authorize(...roles) on a request protect has handed on: the request after
\* it, answered with 403 or handed on to the next handler (which is not part
\* of the middleware: the request ends here with cause "next").
authorizeSuperAdminPasses(roles, req) ==
    IF req.ident # "doc" THEN Throw(req, TypeError, "nullident")
    ELSE LET role == TheDoc(req.user).role
         IN IF role \notin roles /\ role # "super-admin"
            THEN Throw(req, ErrorResponse(RoleMessage(role), 403), "forbidden")
            ELSE [req EXCEPT !.pc = "done", !.cause = "next"]
authorize(roles, req) ==
    IF req.ident # "doc" THEN Throw(req, TypeError, "nullident")
    ELSE LET role == TheDoc(req.user).role
         IN IF role \notin roles
            THEN Throw(req, ErrorResponse(RoleMessage(role), 403), "forbidden")
            ELSE [req EXCEPT !.pc = "done", !.cause = "next"]

\* The lists of roles a route may be mounted with.
RoleLists == {S \in SUBSET Roles : Cardinality(S) <= MaxRoleList}

\* What a client sends to such a route: nothing, or a token it holds, in
\* the header or in the cookie.
GuardedCredentials ==
    {<<NoAuth, NoTok>>}
    \cup {<<Bearer(g), NoTok>> : g \in issued}
    \cup {<<NoAuth, g>> : g \in issued}

\* A request to a route mounted as router.use(path, protect,
\* authorize(...roles), handler): protect awaits findById and calls next(),
\* authorize runs in the same turn.
Guarded(r) ==
    /\ Free(r)
    /\ \E c \in GuardedCredentials, roles \in RoleLists :
         LET req == [IdleReq EXCEPT !.route = "guarded", !.auth = c[1],
                                    !.cookie = c[2], !.roles = roles]
             req1 == protect(req, users, now)
         IN Step(r, IF req1.pc = "done" THEN req1 ELSE authorize(roles, req1))
    /\ nreq' = nreq + 1
    /\ UNCHANGED <<users, issued, now, env, seed, nseed, pwlog>>

\* A store with one user, of any role, who holds a token signed at time 0.
StoredUser(role) ==
    [id |-> 1, name |-> "A", email |-> UserEmail, role |-> role,
     password |-> Hash(Secret1, "s1"), tenantId |-> "S1", createdAt |-> 0]

InitAuthorize ==
    /\ \E role \in Roles :
         /\ users = <<StoredUser(role)>>
         /\ issued = {StaleTok, getSignedJwtToken(StoredUser(role), 0)}
    /\ reqs = [r \in Slots |-> IdleReq]
    /\ last = IdleReq
    /\ nreq = 0
    /\ now = 0
    /\ env \in {"production", "development"}
    /\ seed = [pc |-> "idle", found |-> NoDoc]
    /\ nseed = 0
    /\ pwlog = <<PwEntry(Secret1, 1, NoPw, NoPw)>>

\* ------------------------------------------------------------------ time
Tick ==
    /\ now < MaxTime
    /\ now' = now + 1
    /\ UNCHANGED <<users, reqs, last, nreq, issued, env, seed, nseed, pwlog>>

Next ==
    \/ \E r \in Slots : Register(r)
    \/ \E r \in Slots : Login(r)
    \/ \E r \in Slots : Logout(r)
    \/ \E r \in Slots : Protect(r)
    \/ \E r \in Slots : UpdateDetails(r)
    \/ \E r \in Slots : UpdatePasswordFind(r)
    \/ \E r \in Slots : UpdatePasswordSave(r)
    \/ SeedFind
    \/ SeedUpdate
    \/ SeedCreate
    \/ Tick

Spec == Init /\ [][Next]_vars

\* The middleware chain protect, authorize(...roles) on its own.
NextAuthorize ==
    \/ \E r \in Slots : Guarded(r)
    \/ Tick

SpecAuthorize == InitAuthorize /\ [][NextAuthorize]_vars


\* ================================================================== claims
ProtectedRoutes == {"updatedetails", "updatepassword"}

\* The latest step was a request's arrival (its first step).
Arrived == nreq' = nreq + 1

\* The error envelope of a status and a message, with no token and no cookie.
Envelope(status, message) ==
    [NoResp EXCEPT !.status = status, !.error = message]

\* C1: a login that finds no user and a login that finds the user but not
\* the password get one and the same response: 401, 'Invalid credentials',
\* no token, no cookie.
C1_LoginFailuresAlike ==
    (last.route = "login" /\ last.cause \in {"nouser", "badpw"}) =>
        /\ last.body.email # Undef /\ last.body.password # NoPw
        /\ last.err.message = "Invalid credentials"
        /\ last.err.statusCode = 401
        /\ last.resp = Envelope(401, "Invalid credentials")

C1_Witness ==
    /\ last.route = "login" /\ last.cause = "badpw"
    /\ \E i \in Ids : users[i].email = last.body.email
                      /\ ~Compare(last.body.password, users[i].password)

\* C2: a login that reads the store after a successful updatePassword of
\* the user (new password different from the old one, no later password
\* operation) fails with the old password and succeeds, with a token, with
\* the new one.
C2_LoginAfterUpdatePassword ==
    (/\ last.route = "login" /\ last.pc = "done" /\ last.user # NoDoc) =>
        LET e == pwlog[TheDoc(last.user).id]
        IN (e.upNew # NoPw /\ e.upNew # e.upOld /\ last.seen = e.ver) =>
             /\ last.body.password = e.upOld => last.resp.status = 401
             /\ last.body.password = e.upNew =>
                   (last.resp.status = 200 /\ last.resp.token.kind = "jwt")

\* C3: a register whose email is the email of a stored user fails with
\* status 400, creates no record, issues no token and sets no cookie, and
\* leaves every stored record as it was.
C3_DuplicateRegisterFails ==
    [][(/\ Arrived /\ last'.route = "register"
        /\ \E i \in Ids : users[i].email = last'.body.email) =>
         /\ users' = users
         /\ issued' = issued
         /\ last'.pc = "done"
         /\ last'.resp.status = 400
         /\ ~last'.resp.success
         /\ last'.resp.token = NoTok
         /\ ~last'.resp.cookie.set]_vars

C3_Witness ==
    /\ last.route = "register" /\ last.err = DuplicateKeyError
    /\ \E i \in Ids : users[i].email = last.body.email /\ users[i].role = "student"
    /\ last.body.role = "teacher"

\* C4: no two stored users have the same email, and an updateDetails that
\* sets the email to the one another user holds fails and changes nothing.
C4_EmailsUnique ==
    /\ [](\A i \in Ids : \A j \in Ids : i # j => users[i].email # users[j].email)
    /\ [][\A r \in Slots :
            (/\ reqs[r].pc = "updatedetails" /\ reqs'[r].pc = "idle"
             /\ reqs[r].ident = "doc"
             /\ \E i \in Ids : /\ i # TheDoc(reqs[r].user).id
                               /\ users[i].email = last'.body.email) =>
              /\ users' = users
              /\ ~last'.resp.success
              /\ last'.resp.status >= 400]_vars

C4_Witness ==
    /\ last.route = "updatedetails" /\ last.err = DuplicateKeyError
    /\ Len(users) = 2

C6_HandlerNeedsIdentity ==
    (last.route \in ProtectedRoutes /\ last.ran) =>
        /\ ~FalsyTok(last.token)
        /\ last.token.kind = "jwt" /\ last.token.sig = "good"
        /\ last.ident = "doc"
        /\ \E i \in Ids : TheDoc(last.user).id = i

\* C7: a request to a protected route with no Authorization header and no
\* token cookie is answered by protect with 401 'Not authorized to access
\* this route', before any store operation, and its handler is never
\* entered (a handler is entered only with an extracted token).
C7_NoCredentialsNoStoreAccess ==
    /\ (/\ last.route \in ProtectedRoutes /\ ~last.ran
        /\ last.auth = NoAuth /\ last.cookie = NoTok) =>
          /\ last.pc = "done"
          /\ last.err.statusCode = 401
          /\ last.err.message = "Not authorized to access this route"
          /\ last.resp = Envelope(401, "Not authorized to access this route")
          /\ last.reads = 0
          /\ last.ident = "unset"
    /\ (last.route \in ProtectedRoutes /\ last.ran) => ~FalsyTok(last.token)

C7_Witness ==
    /\ last.route = "updatepassword" /\ last.pc = "done"
    /\ last.auth = NoAuth /\ last.cookie = NoTok
    /\ Len(users) > 0

\* C8: protect answers a token that fails verification (forged, expired or
\* no JWT at all) exactly as it answers a missing token: same status, same
\* message, nothing else in the response.
C8_InvalidTokenLikeMissing ==
    (last.route \in ProtectedRoutes /\ last.cause \in {"notoken", "badtoken"}) =>
        /\ last.err = [name |-> "ErrorResponse",
                       message |-> "Not authorized to access this route",
                       statusCode |-> 401]
        /\ last.resp = Envelope(401, "Not authorized to access this route")
        /\ ~last.ran

C8_Witness ==
    /\ last.cause = "badtoken"
    /\ last.token.kind = "jwt" /\ last.token.sig = "good" /\ last.token.exp <= now
    /\ last.token.id \in Ids

\* C9: with an Authorization header of the Bearer form, the token protect
\* verifies is the header's and the cookie is not consulted, also when the
\* header's token is empty or invalid and the cookie's is valid; without
\* such a header it is the cookie's.
C9_BearerBeforeCookie ==
    (last.route \in ProtectedRoutes /\ ~last.ran) =>
        /\ last.auth.scheme = "Bearer" =>
              /\ last.token = last.auth.cred
              /\ (last.auth.cred.kind # "jwt" \/ last.auth.cred.sig # "good")
                    => (last.pc = "done" /\ last.resp.status = 401)
              /\ last.ident = "doc" => TheDoc(last.user).id = last.auth.cred.id
        /\ last.auth.scheme # "Bearer" =>
              /\ last.token = IF last.cookie.kind \in {"undefined", "empty"}
                              THEN NoTok ELSE last.cookie
              /\ last.ident = "doc" => TheDoc(last.user).id = last.cookie.id

C9_Witness ==
    /\ last.route \in ProtectedRoutes /\ last.pc = "done"
    /\ last.auth.scheme = "Bearer" /\ last.auth.cred.sig = "bad"
    /\ last.cookie.kind = "jwt" /\ last.cookie.sig = "good" /\ now < last.cookie.exp
    /\ last.cookie.id \in Ids

\* C10: whatever the payload, updateDetails changes at most name and email
\* of the acting user's record: its id, role, password digest, tenantId and
\* createdAt, and every other record, stay as they were, and the record it
\* returns carries no password.
C10_UpdateDetailsFrame ==
    [][\A r \in Slots :
         (reqs[r].pc = "updatedetails" /\ reqs'[r].pc = "idle") =>
            /\ DOMAIN users' = DOMAIN users
            /\ \A i \in Ids :
                 /\ users'[i].id = users[i].id
                 /\ users'[i].role = users[i].role
                 /\ users'[i].password = users[i].password
                 /\ users'[i].tenantId = users[i].tenantId
                 /\ users'[i].createdAt = users[i].createdAt
                 /\ (reqs[r].ident # "doc" \/ i # TheDoc(reqs[r].user).id) =>
                       users'[i] = users[i]
            /\ \A d \in last'.resp.data : d.password = NoPw
            /\ pwlog' = pwlog]_vars

C10_Witness ==
    /\ last.route = "updatedetails" /\ last.cause = "ok"
    /\ last.body.role = "super-admin" /\ last.body.password = Secret2
    /\ \E d \in last.resp.data : d.name = "B" /\ d.role = "student"
    /\ Len(users) = 2

\* ------------------------------------------------------------ token issuance
TokenRoutes == {"register", "login", "updatepassword"}

\* The latest step sent a request's response.
Sent ==
    /\ last'.pc = "done"
    /\ \/ nreq' = nreq + 1
       \/ \E r \in Slots : reqs[r].pc # "idle" /\ reqs'[r].pc = "idle"

C12_CookieContract ==
    [][(Sent /\ last'.resp.cookie.set) =>
         LET c == last'.resp.cookie
         IN /\ c.httpOnly
            /\ c.path = "/"
            /\ c.sameSite = "lax"
            /\ c.secure = (env = "production")
            /\ last'.route \in TokenRoutes \cup {"logout"}
            /\ last'.route \in TokenRoutes =>
                  /\ c.value = last'.resp.token
                  /\ c.value.kind = "jwt" /\ c.value.sig = "good"
                  /\ c.expires = now + CookieExpire
            /\ last'.route = "logout" =>
                  /\ c.value = NoneTok
                  /\ c.expires = now + LogoutCookieTtl]_vars

\* --------------------------------------------------------- password change
\* C13: an updatePassword of an attached user whose currentPassword does not
\* verify against the digest the store held for that user when the request
\* fetched it is answered 401 'Current password is incorrect' (not login's
\* 'Invalid credentials'), with no token and no cookie; it writes nothing
\* to the store and issues no token.
C13_WrongCurrentPassword ==
    [][\A r \in Slots :
         (/\ reqs[r].pc = "up_save" /\ reqs'[r].pc = "idle"
          /\ reqs[r].doc # NoDoc
          /\ reqs[r].body.currentPassword # NoPw
          /\ ~Compare(reqs[r].body.currentPassword, TheDoc(reqs[r].doc).password)) =>
            /\ last'.err.name = "ErrorResponse"
            /\ last'.err.statusCode = 401
            /\ last'.err.message = "Current password is incorrect"
            /\ last'.err.message # BadPasswordError.message
            /\ last'.resp = Envelope(401, "Current password is incorrect")
            /\ users' = users
            /\ pwlog' = pwlog
            /\ issued' = issued]_vars

C13_Witness ==
    /\ last.route = "updatepassword" /\ last.cause = "badcurrent"
    /\ last.body.currentPassword = Secret2
    /\ last.ident = "doc"
    /\ users[TheDoc(last.user).id].password = Hash(Secret1, "s1")

\* ------------------------------------------------------------------ roles
\* C14: for a request to which protect attached a stored user, and any list
\* of allowed roles, authorize hands on to the next handler exactly when
\* the user's role is in the list, and otherwise answers 403 with the
\* message 'User role <role> is not authorized to access this route'; either
\* way the store is as before and req.user is the user as protect read it.
C14_AuthorizeByRole ==
    [][(Arrived /\ last'.route = "guarded" /\ last'.ident = "doc") =>
         LET id == last'.token.id
             role == users[id].role
         IN /\ last'.pc = "done"
            /\ role \in last'.roles <=> last'.cause = "next"
            /\ role \in last'.roles => (last'.err = NoErr /\ last'.resp = NoResp)
            /\ role \notin last'.roles =>
                  /\ last'.cause = "forbidden"
                  /\ last'.err = ErrorResponse(RoleMessage(role), 403)
                  /\ last'.resp = Envelope(403, RoleMessage(role))
            /\ users' = users /\ pwlog' = pwlog /\ issued' = issued
            /\ last'.user = {SelectDefault(users[id])}]_vars

C14_Witness ==
    /\ last.route = "guarded" /\ last.cause = "forbidden"
    /\ last.roles = {"admin"}
    /\ last.ident = "doc" /\ TheDoc(last.user).role = "student"
    /\ last.resp.status = 403
    /\ last.resp.error = "User role student is not authorized to access this route"

\* ------------------------------------------------------------------ seeding
\* C15: a login with the documented default credentials (the admin address
\* and 'Admin@123456') that finds the admin the seeding script created,
\* with the password it was created with, succeeds, and its token is one
\* of a super-admin.
C15_SeededDefaultLogin ==
    (/\ last.route = "login" /\ last.pc = "done"
     /\ last.body.email = AdminEmail /\ last.body.password = ReadmePw
     /\ last.user # NoDoc
     /\ TheDoc(last.user).tenantId = "HQ-GLOBAL"
     /\ last.seen = 1) =>
        /\ last.resp.status = 200
        /\ last.resp.success
        /\ last.resp.token.kind = "jwt"
        /\ last.resp.token.role = "super-admin"
        /\ TheDoc(last.user).role = "super-admin"

\* C16: every stored user's role is one of the six roles of the schema; a
\* register without a role stores 'student'; a register with a role that
\* is not one of the six fails, creates no record and changes none; and no
\* step of any other operation changes a stored role to a value outside
\* the six.
C16_RolesInEnum ==
    /\ [](\A i \in Ids : users[i].role \in Roles)
    /\ [][(Arrived /\ last'.route = "register") =>
            /\ (last'.body.role = Undef /\ last'.cause = "ok") =>
                  users'[Len(users')].role = "student"
            /\ (last'.body.role # Undef /\ last'.body.role \notin Roles) =>
                  /\ users' = users
                  /\ ~last'.resp.success /\ last'.resp.status >= 400
                  /\ issued' = issued]_vars
    /\ [][\A i \in Ids : users'[i].role \in Roles \/ users'[i].role = users[i].role]_vars

\* ------------------------------------------------------------ stale tokens
\* C17: a request to updatedetails or updatepassword whose token verified
\* but names no stored user (protect attached null and handed on) ends in
\* its handler's first step with an error response, never a success, and
\* that step creates no record, changes none and issues no token.
C17_StaleTokenFailsDownstream ==
    /\ [][(/\ Arrived /\ last'.route \in ProtectedRoutes
            /\ JwtVerifies(last'.token, now) /\ last'.token.id \notin Ids) =>
              (last'.pc = last'.route /\ last'.ident = "null")]_vars
    /\ [][\A r \in Slots :
            (/\ reqs[r].pc \in ProtectedRoutes /\ reqs[r].ident = "null"
             /\ reqs'[r] # reqs[r]) =>
               /\ reqs'[r].pc = "idle"
               /\ last'.route = reqs[r].route /\ last'.pc = "done"
               /\ last'.err = TypeError
               /\ ~last'.resp.success
               /\ last'.resp.status >= 400
               /\ last'.resp.token = NoTok /\ ~last'.resp.cookie.set
               /\ users' = users /\ pwlog' = pwlog /\ issued' = issued]_vars

C17_Witness ==
    /\ last.route = "updatepassword" /\ last.cause = "nullident"
    /\ last.token = StaleTok /\ last.ident = "null"
    /\ last.resp.status = 500
    /\ Len(users) = 1

\* ------------------------------------------------------------- concurrency
\* C18: a step of updatePassword that changes a user's stored password does
\* so only if the request's currentPassword verifies against the digest
\* the store holds at that step, and only if no other password change of
\* the user happened since the request fetched the digest.
C18_UpdatePasswordAtomic ==
    [][\A r \in Slots :
         (/\ reqs[r].pc = "up_save" /\ reqs'[r].pc = "idle"
          /\ reqs[r].doc # NoDoc
          /\ users'[TheDoc(reqs[r].doc).id].password
                # users[TheDoc(reqs[r].doc).id].password) =>
            LET id == TheDoc(reqs[r].doc).id
            IN /\ Compare(reqs[r].body.currentPassword, users[id].password)
               /\ reqs[r].seen = pwlog[id].ver]_vars

\* ------------------------------------------------------------ statelessness
\* protect, as the store and the clock now are, takes the token (presented
\* in the header or in the cookie) and attaches the user of its id.
Accepted(tok) ==
    \A c \in {<<Bearer(tok), NoTok>>, <<NoAuth, tok>>} :
        LET q == protect([IdleReq EXCEPT !.route = "updatedetails",
                                         !.auth = c[1], !.cookie = c[2]],
                         users, now)
        IN /\ q.pc = "updatedetails" /\ q.ident = "doc"
           /\ TheDoc(q.user).id = tok.id

\* C19: a token protect accepts before a step (a logout, login, register,
\* updateDetails, updatePassword, a step of the seeding script, a tick of
\* the clock) is accepted after it too, for the same user id, unless it
\* has expired by then; what protect does with a token depends on the
\* token, the clock and the existence of its user only.
C19_AcceptanceStateless ==
    /\ [][\A tok \in issued :
            (Accepted(tok) /\ now' < tok.exp) => Accepted(tok)']_vars
    /\ [][(Arrived /\ last'.route \in ProtectedRoutes /\ ~FalsyTok(last'.token)) =>
            ((/\ last'.pc = last'.route /\ last'.ident = "doc"
              /\ TheDoc(last'.user).id = last'.token.id)
             <=> (JwtVerifies(last'.token, now) /\ last'.token.id \in Ids))]_vars

C19_Witness ==
    /\ last.route \in ProtectedRoutes /\ last.pc = last.route /\ ~last.ran
    /\ last.token = getSignedJwtToken(
                        [id |-> 1, name |-> "A", role |-> "student",
                         tenantId |-> "S1"], 0)
    /\ last.ident = "doc" /\ TheDoc(last.user).id = 1
    /\ pwlog[1].ver = 2 /\ pwlog[1].plain = Secret2
    /\ ~Compare(Secret1, users[1].password)

====
